---- MODULE Spec2Model ----
(***************************************************************************)
(* Model of Scripts/update-architecture-diagram.py: the directory scanner  *)
(* (ArchitectureAnalyzer), the renderer (PlantUMLGenerator) and main().     *)
(*                                                                         *)
(* Strings are sequences of pieces (a piece is an indivisible run of       *)
(* characters); a file text is a sequence of tokens, each token a string,  *)
(* with whitespace implied between neighbouring word tokens.  A path is a  *)
(* sequence of names.                                                      *)
(***************************************************************************)
EXTENDS Integers, Sequences, FiniteSets, TLC

\* ------------------------------------------------------------------ bounds
MaxFiles == 2
MaxExtraDirs == 1
MaxUnreadable == 1

\* ----------------------------------------------------------------- strings
Range(s) == {s[i] : i \in 1..Len(s)}

\* sub in s
Contains(s, sub) ==
    \E i \in 1..(Len(s) - Len(sub) + 1) : SubSeq(s, i, i + Len(sub) - 1) = sub

\* s.startswith(prefix)
StartsWith(s, prefix) ==
    Len(prefix) <= Len(s) /\ SubSeq(s, 1, Len(prefix)) = prefix

\* s.replace(p, '') for a one-piece p: every occurrence is removed
RECURSIVE RemovePiece(_, _)
RemovePiece(s, p) ==
    IF s = <<>> THEN <<>>
    ELSE IF Head(s) = p THEN RemovePiece(Tail(s), p)
    ELSE <<Head(s)>> \o RemovePiece(Tail(s), p)

\* str.lower(), piece by piece
LowerPiece(p) ==
    CASE p = "Habits" -> "habits"
      [] p = "Log" -> "log"
      [] p = "View" -> "view"
      [] p = "Model" -> "model"
      [] OTHER -> p

Lower(s) == [i \in 1..Len(s) |-> LowerPiece(s[i])]

\* rank of the pieces feature names are made of, for sorted()
PieceRank(p) ==
    CASE p = "." -> 0
      [] p = "Habits" -> 1
      [] p = "Log" -> 2
      [] OTHER -> 3

\* a < b in string order
RECURSIVE StrLess(_, _)
StrLess(a, b) ==
    IF b = <<>> THEN FALSE
    ELSE IF a = <<>> THEN TRUE
    ELSE IF PieceRank(Head(a)) # PieceRank(Head(b))
         THEN PieceRank(Head(a)) < PieceRank(Head(b))
    ELSE StrLess(Tail(a), Tail(b))

\* sorted(S) for a set of strings
RECURSIVE Sorted(_)
Sorted(S) ==
    IF S = {} THEN <<>>
    ELSE LET m == CHOOSE x \in S : \A y \in S \ {x} : StrLess(x, y)
         IN <<m>> \o Sorted(S \ {m})

\* the orders in which a set can be iterated
Orderings(S) ==
    {q \in [1..Cardinality(S) -> S] : \A i, j \in 1..Cardinality(S) : q[i] = q[j] => i = j}

\* ------------------------------------------------------------------ tokens
NL == <<"\n">>
Punct == {":", ",", "(", ")", "{", "}", "\n", "@Model", "+", "."}
LowerWords == {"public", "final", "class", "protocol", "struct", "import",
               "init", "let", "extension", "repo", "stack"}

\* the token is matched whole by \w+
IsWord(t) == t # <<>> /\ \A i \in 1..Len(t) : t[i] \notin Punct
\* the token is matched whole by [A-Z]\w+
IsCapWord(t) == IsWord(t) /\ t[1] \notin LowerWords

\* first position at or after i that is not a line break (\s+, \s*)
RECURSIVE SkipWs(_, _)
SkipWs(text, i) ==
    IF i <= Len(text) /\ text[i] = NL THEN SkipWs(text, i + 1) ELSE i

At(text, i) == IF i >= 1 /\ i <= Len(text) THEN text[i] ELSE <<>>

\* greatest prefix of the word that ends in one of the marker pieces
LastMarker(t, markers) ==
    IF \E i \in 1..Len(t) : t[i] \in markers
    THEN CHOOSE i \in 1..Len(t) :
            t[i] \in markers /\ \A j \in (i + 1)..Len(t) : t[j] \notin markers
    ELSE 0

\* ---------------------------------------------------- patterns (re.findall)
NoMatch == [ok |-> FALSE, cap |-> <<>>, end |-> 0]
Found(cap, end) == [ok |-> TRUE, cap |-> cap, end |-> end]

\* ^import\s+(\w+)   (re.MULTILINE)
MatchImport(text, i) ==
    LET n == SkipWs(text, i + 1)
    IN IF /\ text[i] = <<"import">>
          /\ (i = 1 \/ text[i - 1] = NL)
          /\ IsWord(At(text, n))
       THEN Found(<<text[n]>>, n) ELSE NoMatch

\* (?:,\s*[A-Z]\w+)*   after the word at n
RECURSIVE ConformanceTail(_, _)
ConformanceTail(text, n) ==
    LET k == SkipWs(text, n + 2)
    IN IF At(text, n + 1) = <<",">> /\ IsCapWord(At(text, k))
       THEN LET r == ConformanceTail(text, k)
            IN [cap |-> <<text[k]>> \o r.cap, end |-> r.end]
       ELSE [cap |-> <<>>, end |-> n]

\* :\s*([A-Z]\w+(?:,\s*[A-Z]\w+)*)   the capture split on ',' and stripped
MatchConformance(text, i) ==
    LET n == SkipWs(text, i + 1)
    IN IF text[i] = <<":">> /\ IsCapWord(At(text, n))
       THEN LET r == ConformanceTail(text, n)
            IN Found(<<text[n]>> \o r.cap, r.end)
       ELSE NoMatch

\* init\([^)]*(\w+):\s*([A-Z]\w+)   [^)]* is greedy: the last parameter wins
MatchInit(text, i) ==
    IF text[i] = <<"init">> /\ At(text, i + 1) = <<"(">>
    THEN LET close == {e \in (i + 2)..Len(text) : text[e] = <<")">>}
             stop == IF close = {} THEN Len(text) + 1
                     ELSE CHOOSE e \in close : \A d \in close : e <= d
             params == {j \in (i + 2)..(stop - 1) :
                          /\ IsWord(text[j])
                          /\ At(text, j + 1) = <<":">>
                          /\ IsCapWord(At(text, SkipWs(text, j + 2)))}
         IN IF params = {} THEN NoMatch
            ELSE LET j == CHOOSE x \in params : \A y \in params : y <= x
                     k == SkipWs(text, j + 2)
                 IN Found(<<text[k]>>, k)
    ELSE NoMatch

\* public\s+(?:struct|class)\s+(\w+)
MatchEntity(text, i) ==
    LET a == SkipWs(text, i + 1)
        b == SkipWs(text, a + 1)
    IN IF /\ text[i] = <<"public">>
          /\ At(text, a) \in {<<"struct">>, <<"class">>}
          /\ IsWord(At(text, b))
       THEN Found(<<text[b]>>, b) ELSE NoMatch

\* (?:public\s+)?(?:final\s+)?(?:class|protocol)\s+(\w*(?:UseCase|UC))
MatchUseCase(text, i) ==
    LET n == SkipWs(text, i + 1)
        w == At(text, n)
        m == LastMarker(w, {"UseCase", "UC"})
    IN IF /\ text[i] \in {<<"class">>, <<"protocol">>}
          /\ IsWord(w)
          /\ m > 0
       THEN Found(<<SubSeq(w, 1, m)>>, n) ELSE NoMatch

\* public\s+final\s+class\s+(\w+):
MatchFinalClassColon(text, i) ==
    LET a == SkipWs(text, i + 1)
        b == SkipWs(text, a + 1)
        c == SkipWs(text, b + 1)
    IN IF /\ text[i] = <<"public">>
          /\ At(text, a) = <<"final">>
          /\ At(text, b) = <<"class">>
          /\ IsWord(At(text, c))
          /\ At(text, c + 1) = <<":">>
       THEN Found(<<text[c]>>, c + 1) ELSE NoMatch

\* public\s+protocol\s+(\w*Repository\w*)
MatchRepositoryProtocol(text, i) ==
    LET a == SkipWs(text, i + 1)
        b == SkipWs(text, a + 1)
    IN IF /\ text[i] = <<"public">>
          /\ At(text, a) = <<"protocol">>
          /\ IsWord(At(text, b))
          /\ Contains(At(text, b), <<"Repository">>)
       THEN Found(<<text[b]>>, b) ELSE NoMatch

\* @Model[^{]*?class\s+(\w+)   (re.DOTALL); [^{]*? is lazy: the first class wins
MatchModel(text, i) ==
    IF text[i] = <<"@Model">>
    THEN LET cands == {j \in (i + 1)..Len(text) :
                         /\ text[j] = <<"class">>
                         /\ IsWord(At(text, SkipWs(text, j + 1)))
                         /\ \A k \in (i + 1)..(j - 1) : text[k] # <<"{">>}
         IN IF cands = {} THEN NoMatch
            ELSE LET j == CHOOSE x \in cands : \A y \in cands : x <= y
                     n == SkipWs(text, j + 1)
                 IN Found(<<text[n]>>, n)
    ELSE NoMatch

\* public\s+final\s+class\s+(\w*Repository\w*Impl\w*)
MatchRepositoryImpl(text, i) ==
    LET a == SkipWs(text, i + 1)
        b == SkipWs(text, a + 1)
        c == SkipWs(text, b + 1)
        w == At(text, c)
    IN IF /\ text[i] = <<"public">>
          /\ At(text, a) = <<"final">>
          /\ At(text, b) = <<"class">>
          /\ IsWord(w)
          /\ \E r, m \in 1..Len(w) : r < m /\ w[r] = "Repository" /\ w[m] = "Impl"
       THEN Found(<<w>>, c) ELSE NoMatch

\* public\s+(?:final\s+)?(?:class|protocol)\s+(\w*Service\w*)
MatchService(text, i) ==
    LET a == SkipWs(text, i + 1)
        b == IF At(text, a) = <<"final">> THEN SkipWs(text, a + 1) ELSE a
        c == SkipWs(text, b + 1)
    IN IF /\ text[i] = <<"public">>
          /\ At(text, b) \in {<<"class">>, <<"protocol">>}
          /\ IsWord(At(text, c))
          /\ Contains(At(text, c), <<"Service">>)
       THEN Found(<<text[c]>>, c) ELSE NoMatch

\* public\s+final\s+class\s+(\w*(?:Manager|Stack))
MatchManagerStack(text, i) ==
    LET a == SkipWs(text, i + 1)
        b == SkipWs(text, a + 1)
        c == SkipWs(text, b + 1)
        w == At(text, c)
        m == LastMarker(w, {"Manager", "Stack"})
    IN IF /\ text[i] = <<"public">>
          /\ At(text, a) = <<"final">>
          /\ At(text, b) = <<"class">>
          /\ IsWord(w)
          /\ m > 0
       THEN Found(<<SubSeq(w, 1, m)>>, c) ELSE NoMatch

Match(pat, text, i) ==
    CASE pat = "import" -> MatchImport(text, i)
      [] pat = "conformance" -> MatchConformance(text, i)
      [] pat = "init" -> MatchInit(text, i)
      [] pat = "entity" -> MatchEntity(text, i)
      [] pat = "usecase" -> MatchUseCase(text, i)
      [] pat = "final_class_colon" -> MatchFinalClassColon(text, i)
      [] pat = "repository_protocol" -> MatchRepositoryProtocol(text, i)
      [] pat = "model" -> MatchModel(text, i)
      [] pat = "repository_impl" -> MatchRepositoryImpl(text, i)
      [] pat = "service" -> MatchService(text, i)
      [] pat = "manager_stack" -> MatchManagerStack(text, i)

\* re.findall: leftmost matches, left to right, not overlapping
RECURSIVE FindAllFrom(_, _, _)
FindAllFrom(pat, text, i) ==
    IF i > Len(text) THEN <<>>
    ELSE LET m == Match(pat, text, i)
         IN IF m.ok THEN m.cap \o FindAllFrom(pat, text, m.end + 1)
            ELSE FindAllFrom(pat, text, i + 1)

FindAll(pat, text) == FindAllFrom(pat, text, 1)

\* ------------------------------------------------------- the project tree
Root == <<<<"Ritualist">>>>
FeaturesDir == Root \o <<<<"Features">>>>
DomainDir == Root \o <<<<"Domain">>>>
DataDir == Root \o <<<<"Data">>>>
ServicesDir == Root \o <<<<"Core">>, <<"Services">>>>
ExtensionsDir == Root \o <<<<"Extensions">>>>

Habits == <<"Habits">>
HabitsLog == <<"Habits", "Log">>
Hidden == <<".", "build">>
HabitsView == <<"Habits", "View">>
HabitsViewModel == <<"Habits", "View", "Model">>
HabitRepository == <<"Habit", "Repository">>
HabitRepositoryImpl == <<"Habit", "Repository", "Impl">>

\* the file texts the layouts are built from
Text(t) ==
    CASE t = "view" ->
           << <<"import">>, <<"SwiftUI">>, NL,
              <<"struct">>, HabitsView, <<":">>, <<"View">>, <<"{">>, <<"}">> >>
      [] t = "viewmodel" ->
           << <<"import">>, <<"Foundation">>, NL,
              <<"public">>, <<"final">>, <<"class">>, HabitsViewModel, <<":">>,
              <<"ObservableObject">>, <<"{">>, NL,
              <<"let">>, <<"repo">>, <<":">>, HabitRepository, NL,
              <<"init">>, <<"(">>, <<"repo">>, <<":">>, HabitRepository, <<")">>,
              <<"{">>, <<"}">>, NL, <<"}">> >>
      [] t = "entity" ->
           << <<"public">>, <<"struct">>, <<"Habit">>, <<":">>, <<"Hashable">>,
              <<"{">>, <<"}">>, NL,
              <<"public">>, <<"class">>, HabitRepository, <<"{">>, <<"}">> >>
      [] t = "usecase" ->
           << <<"public">>, <<"protocol">>, <<"Log", "Habit", "UseCase">>,
              <<"{">>, <<"}">>, NL,
              <<"public">>, <<"final">>, <<"class">>, <<"Log", "Habit">>, <<":">>,
              <<"Log", "Habit", "UseCase">>, <<"{">>, NL,
              <<"init">>, <<"(">>, <<"repo">>, <<":">>, HabitRepository, <<")">>,
              <<"{">>, <<"}">>, NL, <<"}">> >>
      [] t = "repository_protocol" ->
           << <<"public">>, <<"protocol">>, HabitRepository, <<"{">>, <<"}">> >>
      [] t = "plain_protocol" ->
           << <<"protocol">>, HabitRepository, <<"{">>, <<"}">> >>
      [] t = "model" ->
           << <<"import">>, <<"SwiftData">>, NL,
              <<"@Model">>, NL, <<"final">>, <<"class">>, <<"SD", "Habit">>,
              <<"{">>, <<"}">> >>
      [] t = "repository_impl" ->
           << <<"public">>, <<"final">>, <<"class">>, HabitRepositoryImpl, <<":">>,
              HabitRepository, <<",">>, <<"Sendable">>, <<"{">>, NL,
              <<"init">>, <<"(">>, <<"stack">>, <<":">>, <<"SwiftData", "Stack">>,
              <<")">>, <<"{">>, <<"}">>, NL, <<"}">> >>
      [] t = "plain_impl" ->
           << <<"class">>, HabitRepositoryImpl, <<":">>, HabitRepository,
              <<"{">>, <<"}">> >>
      [] t = "service" ->
           << <<"public">>, <<"protocol">>, <<"Paywall", "Service">>,
              <<"{">>, <<"}">>, NL,
              <<"public">>, <<"final">>, <<"class">>, <<"Store", "Manager">>,
              <<":">>, <<"Paywall", "Service">>, <<"{">>, <<"}">> >>
      [] t = "container" ->
           << <<"import">>, <<"FactoryKit">>, NL,
              <<"extension">>, <<"Container">>, <<"{">>, <<"}">> >>
      [] t = "readme" -> << <<"Ritualist">> >>

\* the files a layout can hold: directory, file name (stem, extension), text
File(f) ==
    CASE f = "P1" -> [dir |-> FeaturesDir \o <<Habits, <<"Presentation">>>>,
                      stem |-> HabitsView, ext |-> "swift", text |-> "view"]
      [] f = "P2" -> [dir |-> FeaturesDir \o <<Habits, <<"Presentation">>, <<"ViewModels">>>>,
                      stem |-> HabitsViewModel, ext |-> "swift", text |-> "viewmodel"]
      [] f = "P3" -> [dir |-> FeaturesDir \o <<HabitsLog, <<"Presentation">>>>,
                      stem |-> HabitsView, ext |-> "swift", text |-> "viewmodel"]
      [] f = "P4" -> [dir |-> FeaturesDir \o <<Habits, <<"Presentation">>>>,
                      stem |-> <<"Habits", "Formatter">>, ext |-> "swift", text |-> "view"]
      [] f = "F1" -> [dir |-> FeaturesDir,
                      stem |-> <<"README">>, ext |-> "md", text |-> "readme"]
      [] f = "E1" -> [dir |-> DomainDir \o <<<<"Entities">>>>,
                      stem |-> <<"Habit">>, ext |-> "swift", text |-> "entity"]
      [] f = "U1" -> [dir |-> DomainDir \o <<<<"UseCases">>>>,
                      stem |-> <<"Log", "Habit">>, ext |-> "swift", text |-> "usecase"]
      [] f = "R1" -> [dir |-> DomainDir \o <<<<"Repositories">>>>,
                      stem |-> HabitRepository, ext |-> "swift",
                      text |-> "repository_protocol"]
      [] f = "R2" -> [dir |-> DomainDir \o <<<<"Repositories">>>>,
                      stem |-> <<"Habit", "Repository", "Plain">>, ext |-> "swift",
                      text |-> "plain_protocol"]
      [] f = "M1" -> [dir |-> DataDir \o <<<<"Models">>>>,
                      stem |-> <<"SD", "Habit">>, ext |-> "swift", text |-> "model"]
      [] f = "I1" -> [dir |-> DataDir \o <<<<"Repositories">>>>,
                      stem |-> HabitRepositoryImpl, ext |-> "swift",
                      text |-> "repository_impl"]
      [] f = "I2" -> [dir |-> DataDir \o <<<<"Repositories">>>>,
                      stem |-> <<"Habit", "Repository", "Impl", "Plain">>, ext |-> "swift",
                      text |-> "plain_impl"]
      [] f = "S1" -> [dir |-> ServicesDir,
                      stem |-> <<"Paywall", "Service">>, ext |-> "swift", text |-> "service"]
      [] f = "P5" -> [dir |-> FeaturesDir \o <<Habits, <<"Presentation">>>>,
                      stem |-> <<"View", "Habits", "View">>, ext |-> "swift", text |-> "view"]
      [] f = "D1" -> [dir |-> ExtensionsDir,
                      stem |-> <<"Container", "+", "Habits">>, ext |-> "swift",
                      text |-> "container"]

FileIds == {"P1", "P2", "P3", "P4", "F1", "E1", "U1", "R1", "R2",
            "M1", "I1", "I2", "S1", "D1"}

\* directories a layout can hold without any file in them
ExtraDirs == {FeaturesDir \o <<Habits, <<"Data">>>>,
              FeaturesDir \o <<Hidden, <<"Data">>>>,
              ExtensionsDir}

\* the layouts: a few files, some of them unreadable, and a few empty folders
Layouts ==
    UNION {{[files |-> fl, unreadable |-> un, dirs |-> ds] :
               un \in {x \in SUBSET fl : Cardinality(x) <= MaxUnreadable},
               ds \in {x \in SUBSET ExtraDirs : Cardinality(x) <= MaxExtraDirs}} :
           fl \in {x \in SUBSET FileIds : Cardinality(x) <= MaxFiles}}

\* the files of the layouts the renderer is exercised on
RenderFileIds == FileIds \cup {"P5"}

\* the layouts the renderer is exercised on: every file is readable
RenderLayouts ==
    {[files |-> fl, unreadable |-> {}, dirs |-> ds] :
        fl \in {x \in SUBSET RenderFileIds : Cardinality(x) <= MaxFiles},
        ds \in {x \in SUBSET ExtraDirs : Cardinality(x) <= MaxExtraDirs}}

VARIABLES
    fs,            \* the project tree under the project root (input, never written)
    pc,            \* position of main()
    features,      \* ArchitectureAnalyzer.features
    components,    \* ArchitectureAnalyzer.components: dict, in insertion order
    feature,       \* feature_name of the feature folder being scanned
    pendingDirs,   \* entries features_dir.iterdir() has still to yield
    pendingFiles,  \* files the current glob has still to yield
    warnings,      \* the warnings printed, in order
    produced,      \* history: every Component constructed, in order
    scanned,       \* history: the files handed to an extractor
    diagram,       \* diagram_content: the lines generate_diagram returned
    written,       \* outcome of writing the output file
    exitStatus     \* exit status of the process, -1 while it runs

vars == <<fs, pc, features, components, feature, pendingDirs, pendingFiles,
          warnings, produced, scanned, diagram, written, exitStatus>>

\* ------------------------------------------------------------- filesystem
DirPaths == {File(f).dir : f \in fs.files} \cup fs.dirs

\* Path.exists() of a directory
Exists(d) == \E p \in DirPaths : StartsWith(p, d)

\* Path.iterdir(): the sub-folders and the files directly inside d
IterDir(d) ==
    {[name |-> p[Len(d) + 1], isdir |-> TRUE] :
        p \in {q \in DirPaths : StartsWith(q, d) /\ Len(q) > Len(d)}}
    \cup
    {[name |-> File(f).stem \o <<".", File(f).ext>>, isdir |-> FALSE] :
        f \in {g \in fs.files : File(g).dir = d}}

\* d.glob("*.swift")
GlobSwift(d) == {f \in fs.files : File(f).dir = d /\ File(f).ext = "swift"}

\* variant: recursive=True left out, only the folder itself is listed
GlobSwiftFlat(d) == {f \in fs.files : File(f).dir = d /\ File(f).ext = "swift"}

\* glob.glob(d / "**" / "*.swift", recursive=True)
GlobSwiftRecursive(d) ==
    {f \in fs.files : StartsWith(File(f).dir, d) /\ File(f).ext = "swift"}

\* d.glob("Container+*.swift")
GlobContainer(d) ==
    {f \in GlobSwift(d) : StartsWith(File(f).stem, <<"Container", "+">>)}

\* open(file_path).read() succeeds
Readable(f) == f \notin fs.unreadable
Content(f) == Text(File(f).text)

\* str(path.relative_to(project_root))
RelPath(f) == [dir |-> File(f).dir, stem |-> File(f).stem, ext |-> File(f).ext]

\* the warning an extractor prints when the file cannot be read
Warning(fn, f) == IF Readable(f) THEN <<>> ELSE <<[fn |-> fn, file |-> f]>>

\* -------------------------------------------------------------- extractors
SelectSeq2(s, Deny) ==
    LET Keep(x) == x \notin Deny IN SelectSeq(s, Keep)

\* the list built before list(set(...))
RawDependencies(f) ==
    FindAll("import", Content(f))
    \o SelectSeq2(FindAll("conformance", Content(f)),
                  {<<"ObservableObject">>, <<"Sendable">>, <<"Hashable">>, <<"Equatable">>})
    \o FindAll("init", Content(f))

\* variant: the list is returned as built, without list(set(...))
ExtractDependenciesNoDedup(f) ==
    IF Readable(f) THEN {RawDependencies(f)} ELSE {<<>>}

\* variant: the text is there although the read failed
ExtractDependenciesIgnoringFailure(f) ==
    Orderings(Range(RawDependencies(f)))

\* _extract_dependencies: the lists it can return (a set has no fixed order)
ExtractDependencies(f) ==
    IF Readable(f) THEN Orderings(Range(RawDependencies(f))) ELSE {<<>>}

ExtractEntities(f) ==
    IF Readable(f) THEN FindAll("entity", Content(f)) ELSE <<>>

\* _extract_usecases_from_file: the lists it can return
ExtractUseCases(f) ==
    IF Readable(f)
    THEN LET usecases == FindAll("usecase", Content(f))
             classes == FindAll("final_class_colon", Content(f))
             mentions == \E i \in 1..Len(Content(f)) :
                            Contains(Content(f)[i], <<"UseCase">>)
         IN Orderings(Range(usecases \o (IF mentions THEN classes ELSE <<>>)))
    ELSE {<<>>}

ExtractRepositoryProtocols(f) ==
    IF Readable(f) THEN FindAll("repository_protocol", Content(f)) ELSE <<>>

ExtractSwiftDataModels(f) ==
    IF Readable(f) THEN FindAll("model", Content(f)) ELSE <<>>

ExtractRepositoryImplementations(f) ==
    IF Readable(f) THEN FindAll("repository_impl", Content(f)) ELSE <<>>

ExtractServices(f) ==
    IF Readable(f)
    THEN FindAll("service", Content(f)) \o FindAll("manager_stack", Content(f))
    ELSE <<>>

\* ---------------------------------------------------------------- registry
Component(name, f, type, dependencies, notes) ==
    [name |-> name, path |-> RelPath(f), type |-> type,
     dependencies |-> dependencies, notes |-> notes]

\* variant: setdefault, the first Component of a name is kept
DictSetKeepFirst(d, c) ==
    IF \E i \in 1..Len(d) : d[i].name = c.name THEN d ELSE Append(d, c)

\* d[c.name] = c : an existing key keeps its position, a new key goes last
DictSet(d, c) ==
    IF \E i \in 1..Len(d) : d[i].name = c.name
    THEN [i \in 1..Len(d) |-> IF d[i].name = c.name THEN c ELSE d[i]]
    ELSE Append(d, c)

RECURSIVE DictSetAll(_, _)
DictSetAll(d, cs) ==
    IF cs = <<>> THEN d ELSE DictSetAll(DictSet(d, Head(cs)), Tail(cs))

\* one Component per extracted name, in list order
ComponentsOf(names, f, type, dependencies, notes) ==
    [i \in 1..Len(names) |-> Component(names[i], f, type, dependencies, notes)]

\* the loop body for file f: cs are the Components assigned, ws the warnings
ScanFile(f, cs, ws) ==
    /\ components' = DictSetAll(components, cs)
    /\ produced' = produced \o cs
    /\ warnings' = warnings \o ws
    /\ scanned' = scanned \cup {f}
    /\ pendingFiles' = pendingFiles \ {f}
    /\ UNCHANGED <<fs, pc, features, feature, pendingDirs, diagram, written, exitStatus>>

\* leave a loop or a scan method: continue at `to` with the files `files`
Goto(to, files) ==
    /\ pc' = to
    /\ pendingFiles' = files
    /\ UNCHANGED <<fs, features, components, feature, pendingDirs, warnings,
                   produced, scanned, diagram, written, exitStatus>>

\* ------------------------------------------------- ArchitectureAnalyzer
Init ==
    /\ fs \in Layouts
    /\ pc = "scan_features"
    /\ features = {}
    /\ components = <<>>
    /\ feature = <<>>
    /\ pendingDirs = {}
    /\ pendingFiles = {}
    /\ warnings = <<>>
    /\ produced = <<>>
    /\ scanned = {}
    /\ diagram = <<>>
    /\ written = "not_tried"
    /\ exitStatus = -1

\* _scan_features, up to the loop over features_dir.iterdir()
ScanFeatures ==
    /\ pc = "scan_features"
    /\ IF Exists(FeaturesDir)
       THEN pc' = "feature_dirs" /\ pendingDirs' = IterDir(FeaturesDir)
       ELSE pc' = "scan_domain" /\ UNCHANGED pendingDirs
    /\ UNCHANGED <<fs, features, components, feature, pendingFiles, warnings,
                   produced, scanned, diagram, written, exitStatus>>

\* _scan_features: one entry of features_dir.iterdir()
ScanFeatureDir ==
    /\ pc = "feature_dirs"
    /\ \E e \in pendingDirs :
         /\ pendingDirs' = pendingDirs \ {e}
         /\ IF e.isdir /\ ~StartsWith(e.name, <<".">>)
            THEN LET presentation_dir == FeaturesDir \o <<e.name, <<"Presentation">>>>
                 IN /\ feature' = e.name
                    /\ features' = features \cup {e.name}
                    /\ pc' = "presentation"
                    /\ pendingFiles' = IF Exists(presentation_dir)
                                       THEN GlobSwiftRecursive(presentation_dir)
                                       ELSE {}
            ELSE UNCHANGED <<feature, features, pc, pendingFiles>>
    /\ UNCHANGED <<fs, components, warnings, produced, scanned, diagram,
                   written, exitStatus>>

\* _scan_features: iterdir() is exhausted
ScanFeaturesDone ==
    /\ pc = "feature_dirs"
    /\ pendingDirs = {}
    /\ Goto("scan_domain", {})

\* _scan_presentation_layer: one file of the glob
ScanPresentationFile ==
    /\ pc = "presentation"
    /\ \E f \in pendingFiles :
         \E dependencies \in ExtractDependencies(f) :
            LET file_name == File(f).stem
                cs == IF Contains(file_name, <<"View">>) /\ ~Contains(file_name, <<"Model">>)
                      THEN <<Component(file_name, f, "view", dependencies,
                               feature \o <<" ", "feature", " ", "view">>)>>
                      ELSE IF Contains(file_name, <<"View", "Model">>)
                      THEN <<Component(file_name, f, "viewmodel", dependencies,
                               feature \o <<" ", "feature", " ", "view", " ", "model">>)>>
                      ELSE <<>>
            IN ScanFile(f, cs, Warning("dependencies", f))

\* _scan_features after the presentation scan: the feature's own Data folder.
\* ArchitectureAnalyzer defines no _scan_feature_data_layer, so the call
\* raises AttributeError, which nothing catches.
ScanFeatureData ==
    /\ pc = "presentation"
    /\ pendingFiles = {}
    /\ IF Exists(FeaturesDir \o <<feature, <<"Data">>>>)
       THEN Goto("crashed", {})
       ELSE Goto("feature_dirs", {})

\* _scan_domain_layer, up to the Entities loop
ScanDomainLayer ==
    /\ pc = "scan_domain"
    /\ IF Exists(DomainDir)
       THEN Goto("entities", IF Exists(DomainDir \o <<<<"Entities">>>>)
                             THEN GlobSwift(DomainDir \o <<<<"Entities">>>>) ELSE {})
       ELSE Goto("scan_data", {})

ScanEntitiesFile ==
    /\ pc = "entities"
    /\ \E f \in pendingFiles :
         ScanFile(f, ComponentsOf(ExtractEntities(f), f, "entity", <<>>,
                                  <<"Domain entity">>),
                  Warning("entities", f))

ScanEntitiesDone ==
    /\ pc = "entities"
    /\ pendingFiles = {}
    /\ Goto("usecases", IF Exists(DomainDir \o <<<<"UseCases">>>>)
                        THEN GlobSwift(DomainDir \o <<<<"UseCases">>>>) ELSE {})

\* the dependencies are extracted again for every use case of the file; one
\* process iterates equal sets in one order, so one list serves them all
ScanUseCasesFile ==
    /\ pc = "usecases"
    /\ \E f \in pendingFiles :
         \E usecases \in ExtractUseCases(f), deps \in ExtractDependencies(f) :
            ScanFile(f, ComponentsOf(usecases, f, "usecase", deps,
                                     <<"Business logic use case">>),
                     Warning("usecases", f))

ScanUseCasesDone ==
    /\ pc = "usecases"
    /\ pendingFiles = {}
    /\ Goto("repositories", IF Exists(DomainDir \o <<<<"Repositories">>>>)
                            THEN GlobSwift(DomainDir \o <<<<"Repositories">>>>) ELSE {})

ScanRepositoriesFile ==
    /\ pc = "repositories"
    /\ \E f \in pendingFiles :
         ScanFile(f, ComponentsOf(ExtractRepositoryProtocols(f), f,
                                  "repository_protocol", <<>>, <<"Repository protocol">>),
                  Warning("repository_protocols", f))

ScanDomainDone ==
    /\ pc = "repositories"
    /\ pendingFiles = {}
    /\ Goto("scan_data", {})

\* _scan_data_layer, up to the Models loop
ScanDataLayer ==
    /\ pc = "scan_data"
    /\ IF Exists(DataDir)
       THEN Goto("models", IF Exists(DataDir \o <<<<"Models">>>>)
                           THEN GlobSwift(DataDir \o <<<<"Models">>>>) ELSE {})
       ELSE Goto("scan_core", {})

ScanModelsFile ==
    /\ pc = "models"
    /\ \E f \in pendingFiles :
         ScanFile(f, ComponentsOf(ExtractSwiftDataModels(f), f, "swiftdata_model",
                                  <<>>, <<"SwiftData persistence model">>),
                  Warning("swiftdata_models", f))

ScanModelsDone ==
    /\ pc = "models"
    /\ pendingFiles = {}
    /\ Goto("repository_impls", IF Exists(DataDir \o <<<<"Repositories">>>>)
                                THEN GlobSwift(DataDir \o <<<<"Repositories">>>>) ELSE {})

ScanRepositoryImplsFile ==
    /\ pc = "repository_impls"
    /\ \E f \in pendingFiles :
         \E deps \in ExtractDependencies(f) :
            ScanFile(f, ComponentsOf(ExtractRepositoryImplementations(f), f,
                                     "repository_impl", deps,
                                     <<"Repository implementation">>),
                     Warning("repository_implementations", f))

ScanDataDone ==
    /\ pc = "repository_impls"
    /\ pendingFiles = {}
    /\ Goto("scan_core", {})

\* _scan_core_services, up to the loop
ScanCoreServices ==
    /\ pc = "scan_core"
    /\ IF Exists(ServicesDir)
       THEN Goto("services", GlobSwift(ServicesDir))
       ELSE Goto("scan_di", {})

ScanServicesFile ==
    /\ pc = "services"
    /\ \E f \in pendingFiles :
         \E deps \in ExtractDependencies(f) :
            ScanFile(f, ComponentsOf(ExtractServices(f), f, "service", deps,
                                     <<"Core service">>),
                     Warning("services", f))

ScanCoreDone ==
    /\ pc = "services"
    /\ pendingFiles = {}
    /\ Goto("scan_di", {})

\* _scan_dependency_injection, up to the loop
ScanDependencyInjection ==
    /\ pc = "scan_di"
    /\ IF Exists(ExtensionsDir)
       THEN Goto("di", GlobContainer(ExtensionsDir))
       ELSE Goto("render", {})

ScanContainerFile ==
    /\ pc = "di"
    /\ \E f \in pendingFiles :
         \E deps \in ExtractDependencies(f) :
            ScanFile(f, <<Component(File(f).stem, f, "di_container", deps,
                                    <<"Dependency injection container">>)>>,
                     Warning("dependencies", f))

\* analyze_codebase returns
ScanDone ==
    /\ pc = "di"
    /\ pendingFiles = {}
    /\ Goto("render", {})

\* ----------------------------------------------------- PlantUMLGenerator
Timestamps == {"2025-01-01 00:00:00", "2025-01-01 00:00:01"}

\* one line per string
Lines(strs) == [i \in 1..Len(strs) |-> <<strs[i]>>]

RECURSIVE Flatten(_)
Flatten(ss) == IF ss = <<>> THEN <<>> ELSE Head(ss) \o Flatten(Tail(ss))

\* [c for c in components.values() if c.type == type]
OfType(cs, type) == LET Is(c) == c.type = type IN SelectSeq(cs, Is)

\* component "<name>" as <name><suffix>
ComponentLine(c, suffix) ==
    <<"        component \"">> \o c.name \o <<"\" as ">> \o c.name \o suffix

\* interface "<name>" as I<name>
InterfaceLine(c) ==
    <<"        interface \"">> \o c.name \o <<"\" as I">> \o c.name

ComponentLines(cs, type, suffix) ==
    [i \in 1..Len(OfType(cs, type)) |-> ComponentLine(OfType(cs, type)[i], suffix)]

GenerateHeader(timestamp) ==
    Lines(<<"@startuml Ritualist iOS Architecture", "",
            "!theme aws-orange",
            "skinparam backgroundColor white",
            "skinparam componentStyle rectangle",
            "skinparam packageStyle rectangle", "",
            "title Ritualist iOS App - Clean Architecture Overview">>)
    \o << <<"note top : Auto-generated on ", timestamp>>, <<"">> >>

GenerateApplicationLayer ==
    Lines(<<"' ==== Application Layer ====",
            "package \"Application Layer\" as AppLayer {",
            "    component \"RitualistApp\" as RitualistApp",
            "    component \"RootTabView\" as RootTabView",
            "    component \"AppDelegate\" as AppDelegate",
            "}", "">>)

\* feature.lower() in c.notes.lower()
InFeature(c, ft) == Contains(Lower(c.notes), Lower(ft))

\* the group of one feature
FeatureGroup(cs, ft) ==
    LET IsView(c) == c.type = "view" /\ InFeature(c, ft)
        IsViewModel(c) == c.type = "viewmodel" /\ InFeature(c, ft)
        feature_views == SelectSeq(cs, IsView)
        feature_viewmodels == SelectSeq(cs, IsViewModel)
    IN << <<"    package \"">> \o ft \o <<" Feature\" as ">> \o ft \o <<"Feature {">> >>
       \o [i \in 1..Len(feature_views) |-> ComponentLine(feature_views[i], <<>>)]
       \o [i \in 1..Len(feature_viewmodels) |-> ComponentLine(feature_viewmodels[i], <<>>)]
       \o Lines(<<"    }", "">>)

GenerateFeaturesLayer(cs, fts) ==
    Lines(<<"' ==== Features Layer ====",
            "package \"Features Layer\" as FeaturesLayer {">>)
    \o Flatten([i \in 1..Len(Sorted(fts)) |-> FeatureGroup(cs, Sorted(fts)[i])])
    \o Lines(<<"}", "">>)

GenerateDomainLayer(cs) ==
    Lines(<<"' ==== Domain Layer ====",
            "package \"Domain Layer\" as DomainLayer {",
            "    package \"Entities\" as DomainEntities {">>)
    \o ComponentLines(cs, "entity", <<"Entity">>)
    \o Lines(<<"    }", "    ", "    package \"Use Cases\" as UseCases {">>)
    \o ComponentLines(cs, "usecase", <<>>)
    \o Lines(<<"    }", "    ", "    package \"Repository Protocols\" as RepoProtocols {">>)
    \o [i \in 1..Len(OfType(cs, "repository_protocol")) |->
          InterfaceLine(OfType(cs, "repository_protocol")[i])]
    \o Lines(<<"    }", "}", "">>)

GenerateDataLayer(cs) ==
    Lines(<<"' ==== Data Layer ====",
            "package \"Data Layer\" as DataLayer {",
            "    package \"SwiftData Models\" as SDModels {">>)
    \o ComponentLines(cs, "swiftdata_model", <<>>)
    \o Lines(<<"    }", "    ",
               "    package \"Repository Implementations\" as RepoImpl {">>)
    \o ComponentLines(cs, "repository_impl", <<>>)
    \o Lines(<<"    }", "    ",
               "    component \"SwiftDataStack\" as SwiftDataStack",
               "}", "">>)

\* variant: the filter names a kind the scanner never assigns
GenerateCoreLayerWrongKind(cs) ==
    Lines(<<"' ==== Core Layer ====",
            "package \"Core Layer\" as CoreLayer {",
            "    package \"Services\" as Services {">>)
    \o ComponentLines(cs, "services", <<>>)
    \o Lines(<<"    }", "}", "">>)

GenerateCoreLayer(cs) ==
    Lines(<<"' ==== Core Layer ====",
            "package \"Core Layer\" as CoreLayer {",
            "    package \"Services\" as Services {">>)
    \o ComponentLines(cs, "service", <<>>)
    \o Lines(<<"    }", "}", "">>)

GenerateDILayer(cs) ==
    Lines(<<"' ==== Dependency Injection ====",
            "package \"Dependency Injection\" as DILayer {",
            "    component \"Container (FactoryKit)\" as Container",
            "    ",
            "    package \"Container Extensions\" as ContainerExt {">>)
    \o ComponentLines(cs, "di_container", <<>>)
    \o Lines(<<"    }", "}", "">>)

GenerateLayers(cs, fts) ==
    GenerateApplicationLayer
    \o GenerateFeaturesLayer(cs, fts)
    \o GenerateDomainLayer(cs)
    \o GenerateDataLayer(cs)
    \o GenerateCoreLayer(cs)
    \o GenerateDILayer(cs)

\* next((x for x in candidates if ...), None), given for every candidate
\* whether it matches: index of the first match, 0 if none
FirstIndex(matches) ==
    IF \E i \in 1..Len(matches) : matches[i]
    THEN CHOOSE i \in 1..Len(matches) :
            matches[i] /\ \A j \in 1..(i - 1) : ~matches[j]
    ELSE 0

\* the observes edge of one view, if it has one
ObservesEdge(view, viewmodels) ==
    LET view_base == RemovePiece(view.name, "View")
        Matches(vm) == StartsWith(vm.name, view_base)
        m == FirstIndex([i \in 1..Len(viewmodels) |-> Matches(viewmodels[i])])
    IN IF m = 0 THEN <<>>
       ELSE << view.name \o <<" --> ">> \o viewmodels[m].name \o <<" : observes">> >>

\* variant: the operands of `in` are swapped
ImplementsEdgeSwapped(protocol, repo_impls) ==
    LET Matches(impl) == Contains(RemovePiece(protocol.name, "Repository"), impl.name)
        m == FirstIndex([i \in 1..Len(repo_impls) |-> Matches(repo_impls[i])])
    IN IF m = 0 THEN <<>>
       ELSE << repo_impls[m].name \o <<" .up.|> I">> \o protocol.name
               \o <<" : implements">> >>

\* the implements edge of one repository protocol, if it has one
ImplementsEdge(protocol, repo_impls) ==
    LET Matches(impl) == Contains(impl.name, RemovePiece(protocol.name, "Repository"))
        m == FirstIndex([i \in 1..Len(repo_impls) |-> Matches(repo_impls[i])])
    IN IF m = 0 THEN <<>>
       ELSE << repo_impls[m].name \o <<" .up.|> I">> \o protocol.name
               \o <<" : implements">> >>

\* variant: an empty registry returns before the fixed security line
GenerateRelationshipsEarlyReturn(cs) ==
    IF cs = <<>> THEN Lines(<<"' ===== RELATIONSHIPS =====", "">>)
    ELSE Lines(<<"' ===== RELATIONSHIPS =====", "", "' MVVM Pattern">>)
         \o Flatten([i \in 1..Len(OfType(cs, "view")) |->
                       ObservesEdge(OfType(cs, "view")[i], OfType(cs, "viewmodel"))])
         \o Lines(<<"", "' Repository Pattern">>)
         \o Flatten([i \in 1..Len(OfType(cs, "repository_protocol")) |->
                       ImplementsEdge(OfType(cs, "repository_protocol")[i],
                                      OfType(cs, "repository_impl"))])
         \o Lines(<<"", "' Security Layer",
                    "PaywallService --> SecureSubscriptionService : validates purchases",
                    "">>)

GenerateRelationships(cs) ==
    LET views == OfType(cs, "view")
        viewmodels == OfType(cs, "viewmodel")
        repo_protocols == OfType(cs, "repository_protocol")
        repo_impls == OfType(cs, "repository_impl")
    IN Lines(<<"' ===== RELATIONSHIPS =====", "", "' MVVM Pattern">>)
       \o Flatten([i \in 1..Len(views) |-> ObservesEdge(views[i], viewmodels)])
       \o Lines(<<"", "' Repository Pattern">>)
       \o Flatten([i \in 1..Len(repo_protocols) |->
                     ImplementsEdge(repo_protocols[i], repo_impls)])
       \o Lines(<<"", "' Security Layer",
                  "PaywallService --> SecureSubscriptionService : validates purchases",
                  "">>)

GenerateNotes ==
    << <<"' Architectural Notes">>,
       <<"note top of DomainLayer : **Domain Layer**\\n- Pure business logic\\n- No external dependencies\\n- Repository protocols only">>,
       <<"">>,
       <<"note top of DataLayer : **Data Layer**\\n- SwiftData persistence\\n- Entity ",
         "U+2194", " Model mapping\\n- Repository implementations">>,
       <<"">>,
       <<"note top of CoreLayer : **Core Layer**\\n- Shared services\\n- Security validation\\n- Feature gating">>,
       <<"">> >>

GenerateFooter == << <<"@enduml">> >>

\* variant: the footer is stamped with the generation time too
GenerateDiagramTextStampedFooter(cs, fts, timestamp) ==
    GenerateHeader(timestamp)
    \o GenerateLayers(cs, fts)
    \o GenerateRelationships(cs)
    \o GenerateNotes
    \o << <<"@enduml ' ", timestamp>> >>

GenerateDiagramText(cs, fts, timestamp) ==
    GenerateHeader(timestamp)
    \o GenerateLayers(cs, fts)
    \o GenerateRelationships(cs)
    \o GenerateNotes
    \o GenerateFooter

\* ------------------------------------------------------------------ main()
\* generator.generate_diagram()
GenerateDiagram ==
    /\ pc = "render"
    /\ \E timestamp \in Timestamps :
         diagram' = GenerateDiagramText(components, features, timestamp)
    /\ pc' = "write"
    /\ UNCHANGED <<fs, features, components, feature, pendingDirs, pendingFiles,
                   warnings, produced, scanned, written, exitStatus>>

\* open(output_path, 'w') and f.write(diagram_content): return 0, or 1 on an exception
WriteOutput ==
    /\ pc = "write"
    /\ \E ok \in BOOLEAN :
         /\ written' = IF ok THEN "written" ELSE "failed"
         /\ exitStatus' = IF ok THEN 0 ELSE 1
    /\ pc' = "exited"
    /\ UNCHANGED <<fs, features, components, feature, pendingDirs, pendingFiles,
                   warnings, produced, scanned, diagram>>

\* the AttributeError leaves analyze_codebase and main(): the interpreter
\* prints the traceback and exits with status 1
UncaughtException ==
    /\ pc = "crashed"
    /\ pc' = "exited"
    /\ exitStatus' = 1
    /\ UNCHANGED <<fs, features, components, feature, pendingDirs, pendingFiles,
                   warnings, produced, scanned, diagram, written>>

Next ==
    \/ ScanFeatures
    \/ ScanFeatureDir
    \/ ScanFeaturesDone
    \/ ScanPresentationFile
    \/ ScanFeatureData
    \/ ScanDomainLayer
    \/ ScanEntitiesFile
    \/ ScanEntitiesDone
    \/ ScanUseCasesFile
    \/ ScanUseCasesDone
    \/ ScanRepositoriesFile
    \/ ScanDomainDone
    \/ ScanDataLayer
    \/ ScanModelsFile
    \/ ScanModelsDone
    \/ ScanRepositoryImplsFile
    \/ ScanDataDone
    \/ ScanCoreServices
    \/ ScanServicesFile
    \/ ScanCoreDone
    \/ ScanDependencyInjection
    \/ ScanContainerFile
    \/ ScanDone
    \/ GenerateDiagram
    \/ WriteOutput
    \/ UncaughtException

Spec == Init /\ [][Next]_vars

\* ------------------------------------------- generate_diagram, called again
InitRender ==
    /\ fs \in RenderLayouts
    /\ pc = "scan_features"
    /\ features = {}
    /\ components = <<>>
    /\ feature = <<>>
    /\ pendingDirs = {}
    /\ pendingFiles = {}
    /\ warnings = <<>>
    /\ produced = <<>>
    /\ scanned = {}
    /\ diagram = <<>>
    /\ written = "not_tried"
    /\ exitStatus = -1

\* a second generator.generate_diagram() on the same PlantUMLGenerator: it
\* reads self.components and self.features and assigns neither
GenerateDiagramAgain ==
    /\ pc = "write"
    /\ \E timestamp \in Timestamps :
         diagram' = GenerateDiagramText(components, features, timestamp)
    /\ pc' = "rendered_again"
    /\ UNCHANGED <<fs, features, components, feature, pendingDirs, pendingFiles,
                   warnings, produced, scanned, written, exitStatus>>

NextRender == Next \/ GenerateDiagramAgain

SpecRender == InitRender /\ [][NextRender]_vars

\* ------------------------------------------------------------ properties
\* analyze_codebase has returned
ScanCompleted == pc \in {"render", "write"} \/ (pc = "exited" /\ written # "not_tried")
\* generate_diagram has returned
Rendered == pc = "write" \/ (pc = "exited" /\ written # "not_tried")

\* the lines of the diagram that end in the given piece
LinesEnding(piece) ==
    {k \in 1..Len(diagram) : diagram[k][Len(diagram[k])] = piece}

\* the component of the given name and kind is in the registry
Registered(name, type) ==
    \E i \in 1..Len(components) : components[i].name = name /\ components[i].type = type

\* the Components constructed from file f, as positions of the history
ProducedFrom(f) == {i \in 1..Len(produced) : produced[i].path = RelPath(f)}

\* C1: for every project layout, no exception propagates out of the scanning
\* phase (stated as: the scan never ends in an uncaught exception).
C1_NoExceptionLeavesScan == pc # "crashed"

\* C2: once the scan is over, every name that was produced is held exactly
\* once by the registry, with the fields of the Component produced last.
C2_LastWriterWins ==
    ScanCompleted =>
        \A i \in 1..Len(produced) :
            LET n == produced[i].name
                last == CHOOSE j \in 1..Len(produced) :
                           /\ produced[j].name = n
                           /\ \A k \in (j + 1)..Len(produced) : produced[k].name # n
                held == {k \in 1..Len(components) : components[k].name = n}
            IN /\ Cardinality(held) = 1
               /\ \A k \in held : components[k] = produced[last]

\* two files produced the same name, and the scan is over
C2_Witness ==
    /\ ScanCompleted
    /\ \E i, j \in 1..Len(produced) :
          /\ i < j
          /\ produced[i].name = produced[j].name
          /\ produced[i].path # produced[j].path

\* C3 as stated: an unreadable file is warned about and no Component of the
\* registry comes from it.
C3_UnreadableContributesNothing ==
    \A f \in scanned :
        ~Readable(f) =>
            /\ \E w \in 1..Len(warnings) : warnings[w].file = f
            /\ \A i \in 1..Len(components) : components[i].path # RelPath(f)

\* the files the scan hands to an extractor when nothing stops it
FilesToScan ==
    UNION {GlobSwiftRecursive(FeaturesDir \o <<e.name, <<"Presentation">>>>) :
             e \in {x \in IterDir(FeaturesDir) : x.isdir /\ ~StartsWith(x.name, <<".">>)}}
    \cup GlobSwift(DomainDir \o <<<<"Entities">>>>)
    \cup GlobSwift(DomainDir \o <<<<"UseCases">>>>)
    \cup GlobSwift(DomainDir \o <<<<"Repositories">>>>)
    \cup GlobSwift(DataDir \o <<<<"Models">>>>)
    \cup GlobSwift(DataDir \o <<<<"Repositories">>>>)
    \cup GlobSwift(ServicesDir)
    \cup GlobContainer(ExtensionsDir)

\* C3 (amended): an unreadable file is warned about; it contributes no
\* dependencies and no name taken from its text (only the view, view-model or
\* DI-container Component named after the file, with no dependencies); and the
\* read failure does not stop the scan: a scan that returns has handled every
\* file, and a scan that raised did so at a feature's Data folder.
C3_UnreadableFileRecovered ==
    /\ \A f \in scanned :
          ~Readable(f) =>
             /\ \E w \in 1..Len(warnings) : warnings[w].file = f
             /\ \A i \in ProducedFrom(f) :
                   /\ produced[i].dependencies = <<>>
                   /\ produced[i].name = File(f).stem
                   /\ produced[i].type \in {"view", "viewmodel", "di_container"}
    /\ ScanCompleted => scanned = FilesToScan
    /\ pc = "crashed" => Exists(FeaturesDir \o <<feature, <<"Data">>>>)

\* an unreadable file left its file-named Component, and a readable file
\* scanned after it left one too
C3_Witness ==
    /\ ScanCompleted
    /\ \E f, g \in scanned :
          /\ ~Readable(f) /\ Readable(g)
          /\ \E i \in ProducedFrom(f), j \in ProducedFrom(g) : i < j

\* C4: the exit status is 0 exactly when the output file was written and 1
\* exactly when writing it failed; nothing in the scan changes it.
C4_ExitStatusFollowsWrite ==
    pc = "exited" =>
        /\ exitStatus = 0 <=> written = "written"
        /\ exitStatus = 1 <=> written = "failed"

\* the package lines that open a rendering section, and the line that ends them
SectionHeaders ==
    {<<"package \"Features Layer\" as FeaturesLayer {">>,
     <<"    package \"Entities\" as DomainEntities {">>,
     <<"    package \"Use Cases\" as UseCases {">>,
     <<"    package \"Repository Protocols\" as RepoProtocols {">>,
     <<"    package \"SwiftData Models\" as SDModels {">>,
     <<"    package \"Repository Implementations\" as RepoImpl {">>,
     <<"    package \"Services\" as Services {">>,
     <<"    package \"Container Extensions\" as ContainerExt {">>,
     <<"' ===== RELATIONSHIPS =====">>}

\* the section line k of the diagram belongs to
SectionOfLine(k) ==
    LET before == {j \in 1..k : diagram[j] \in SectionHeaders}
    IN IF before = {} THEN <<"">>
       ELSE diagram[CHOOSE j \in before : \A h \in before : h <= j]

\* the sections that list component c
SectionsListing(c) ==
    {SectionOfLine(k) :
        k \in {x \in 1..Len(diagram) :
                 diagram[x] \in {ComponentLine(c, <<>>), ComponentLine(c, <<"Entity">>),
                                 InterfaceLine(c)}}}

\* C5: every component of the registry is listed by exactly one rendering
\* section of the diagram.
C5_EveryKindRenderedOnce ==
    Rendered =>
        \A i \in 1..Len(components) : Cardinality(SectionsListing(components[i])) = 1

\* a rendered registry with components of two kinds
C5_Witness ==
    /\ Rendered
    /\ \E i, j \in 1..Len(components) : components[i].type # components[j].type

\* the implements edge between the two components, and no other
OneImplementsEdge ==
    /\ Registered(HabitRepository, "repository_protocol")
    /\ Registered(HabitRepositoryImpl, "repository_impl")
    /\ Cardinality(LinesEnding(" : implements")) = 1
    /\ \A k \in LinesEnding(" : implements") :
          diagram[k] = HabitRepositoryImpl \o <<" .up.|> I">> \o HabitRepository
                       \o <<" : implements">>

C7_ViewObservesViewModel ==
    (Rendered /\ fs.files = {"P1", "P2"}) =>
        /\ Len(components) = 2
        /\ Registered(HabitsView, "view")
        /\ Registered(HabitsViewModel, "viewmodel")
        /\ Cardinality(LinesEnding(" : observes")) = 1
        /\ \A k \in LinesEnding(" : observes") :
              diagram[k] = HabitsView \o <<" --> ">> \o HabitsViewModel
                           \o <<" : observes">>

C7_Witness ==
    /\ Rendered /\ fs.files = {"P1", "P2"}
    /\ features = {Habits}
    /\ Cardinality(LinesEnding(" : observes")) = 1

\* the fixed lines of the diagram
StaticLines ==
    {<<"@startuml Ritualist iOS Architecture">>,
     <<"title Ritualist iOS App - Clean Architecture Overview">>,
     <<"package \"Application Layer\" as AppLayer {">>,
     <<"    component \"RitualistApp\" as RitualistApp">>,
     <<"    component \"RootTabView\" as RootTabView">>,
     <<"    component \"AppDelegate\" as AppDelegate">>,
     <<"package \"Features Layer\" as FeaturesLayer {">>,
     <<"package \"Domain Layer\" as DomainLayer {">>,
     <<"package \"Data Layer\" as DataLayer {">>,
     <<"    component \"SwiftDataStack\" as SwiftDataStack">>,
     <<"package \"Core Layer\" as CoreLayer {">>,
     <<"package \"Dependency Injection\" as DILayer {">>,
     <<"    component \"Container (FactoryKit)\" as Container">>,
     <<"PaywallService --> SecureSubscriptionService : validates purchases">>,
     <<"' Architectural Notes">>,
     <<"@enduml">>}

\* the lines that exist only for something the scan discovered
DynamicLines ==
    {k \in 1..Len(diagram) :
        \/ diagram[k][1] \in {"        component \"", "        interface \"", "    package \""}
        \/ diagram[k][Len(diagram[k])] \in {" : observes", " : implements"}}

\* C8: an empty project root yields a complete diagram: header first, footer
\* last, every fixed line and the three layer notes present, and no
\* discovered component, feature group or inferred edge.
C8_EmptyProjectDiagram ==
    (Rendered /\ fs.files = {} /\ fs.dirs = {}) =>
        /\ components = <<>> /\ features = {}
        /\ StaticLines \subseteq Range(diagram)
        /\ diagram[1] = <<"@startuml Ritualist iOS Architecture">>
        /\ diagram[Len(diagram)] = <<"@enduml">>
        /\ \E t \in Timestamps : <<"note top : Auto-generated on ", t>> \in Range(diagram)
        /\ Cardinality({k \in 1..Len(diagram) :
                          diagram[k][1] \in {"note top of DomainLayer : **Domain Layer**\\n- Pure business logic\\n- No external dependencies\\n- Repository protocols only",
                                             "note top of DataLayer : **Data Layer**\\n- SwiftData persistence\\n- Entity ",
                                             "note top of CoreLayer : **Core Layer**\\n- Shared services\\n- Security validation\\n- Feature gating"}}) = 3
        /\ DynamicLines = {}

C8_Witness ==
    /\ Rendered /\ fs.files = {} /\ fs.dirs = {}
    /\ Len(diagram) > 0

\* the conventional directories and the kinds each one supplies
Conventional ==
    {[dir |-> FeaturesDir, kinds |-> {"view", "viewmodel"}],
     [dir |-> DomainDir, kinds |-> {"entity", "usecase", "repository_protocol"}],
     [dir |-> DomainDir \o <<<<"Entities">>>>, kinds |-> {"entity"}],
     [dir |-> DomainDir \o <<<<"UseCases">>>>, kinds |-> {"usecase"}],
     [dir |-> DomainDir \o <<<<"Repositories">>>>, kinds |-> {"repository_protocol"}],
     [dir |-> DataDir, kinds |-> {"swiftdata_model", "repository_impl"}],
     [dir |-> DataDir \o <<<<"Models">>>>, kinds |-> {"swiftdata_model"}],
     [dir |-> DataDir \o <<<<"Repositories">>>>, kinds |-> {"repository_impl"}],
     [dir |-> ServicesDir, kinds |-> {"service"}],
     [dir |-> ExtensionsDir, kinds |-> {"di_container"}]}

\* C9: when a conventional directory is absent the scan does not raise and
\* the registry holds no component of the kinds that directory supplies; with
\* no feature directory the feature set is empty too.
C9_MissingDirectoryTolerated ==
    \A d \in Conventional :
        ~Exists(d.dir) =>
            /\ pc # "crashed"
            /\ \A i \in 1..Len(components) : components[i].type \notin d.kinds
            /\ d.dir = FeaturesDir => features = {}

\* C10: no dependency name occurs twice in the dependency list of a
\* component of the registry.
C10_DependenciesDeduplicated ==
    \A i \in 1..Len(components) :
        LET deps == components[i].dependencies
        IN \A a, b \in 1..Len(deps) : deps[a] = deps[b] => a = b

\* a component whose file matches one dependency name more than once
C10_Witness ==
    \E i \in 1..Len(components) : \E f \in scanned :
        /\ components[i].path = RelPath(f)
        /\ Readable(f)
        /\ components[i].dependencies # <<>>
        /\ \E a, b \in 1..Len(RawDependencies(f)) :
              a # b /\ RawDependencies(f)[a] = RawDependencies(f)[b]

\* the diagram with the generation timestamp of the header replaced
NormalizeTimestamp(d) ==
    [k \in 1..Len(d) |->
        IF d[k][1] = "note top : Auto-generated on "
        THEN <<"note top : Auto-generated on ", "TIMESTAMP">>
        ELSE d[k]]

\* C11: a second generate_diagram on the same registry and feature set gives
\* the same lines as the first once the timestamp is normalized, and leaves
\* the registry and the feature set as they were.
C11_RenderIdempotent ==
    [][pc' = "rendered_again" =>
          /\ NormalizeTimestamp(diagram') = NormalizeTimestamp(diagram)
          /\ components' = components
          /\ features' = features]_vars

\* the diagram of a registry with components and features was generated twice
C11_Witness ==
    /\ pc = "rendered_again"
    /\ Len(components) >= 2
    /\ features # {}
    /\ LinesEnding(" : observes") # {}

\* the name without a trailing "View"
StripViewSuffix(name) ==
    IF Len(name) > 0 /\ name[Len(name)] = "View"
    THEN SubSeq(name, 1, Len(name) - 1) ELSE name

\* the observes edges drawn from the view
ObservesEdgesOf(view) ==
    {k \in LinesEnding(" : observes") :
        StartsWith(diagram[k], view.name \o <<" --> ">>)}

\* C12: every view has at most one observes edge; its stem is its name
\* without a trailing "View"; the edge goes to the first view-model of the
\* registry whose name starts with the stem, and there is no edge when no
\* view-model does.
C12_ObservesBySuffixStem ==
    Rendered =>
        \A i \in 1..Len(components) :
            components[i].type = "view" =>
                LET view == components[i]
                    viewmodels == OfType(components, "viewmodel")
                    stem == StripViewSuffix(view.name)
                    m == FirstIndex([j \in 1..Len(viewmodels) |->
                                       StartsWith(viewmodels[j].name, stem)])
                IN /\ Cardinality(ObservesEdgesOf(view)) <= 1
                   /\ m = 0 => ObservesEdgesOf(view) = {}
                   /\ m # 0 => \E k \in ObservesEdgesOf(view) :
                                  diagram[k] = view.name \o <<" --> ">>
                                               \o viewmodels[m].name \o <<" : observes">>

\* the package line that opens the group of a feature
FeaturePackageLine(ft) ==
    <<"    package \"">> \o ft \o <<" Feature\" as ">> \o ft \o <<"Feature {">>

\* the features whose group lists component c
GroupsListing(c) ==
    {ft \in features :
        \E k \in 1..Len(diagram) :
            /\ diagram[k] = ComponentLine(c, <<>>)
            /\ \E h \in 1..(k - 1) :
                  /\ diagram[h] = FeaturePackageLine(ft)
                  /\ \A j \in (h + 1)..(k - 1) : diagram[j][1] # "    package \""}

\* C13: every view and view-model of the registry is listed under exactly
\* one feature group, the one of the feature whose Presentation folder holds
\* its file.
C13_ListedUnderOwnFeatureOnly ==
    Rendered =>
        \A i \in 1..Len(components) :
            components[i].type \in {"view", "viewmodel"} =>
                GroupsListing(components[i])
                    = {components[i].path.dir[Len(FeaturesDir) + 1]}

====
